---- MODULE Spec2Model ----
(***************************************************************************)
(* terraform-provider-k3d: the cluster, node and registry resources and    *)
(* data sources, as state machines over the k3d runtime (clusters and node *)
(* containers), the default kubeconfig file and each invocation's          *)
(* schema.ResourceData.                                                    *)
(*                                                                         *)
(* Every handler is cut into one action per collaborator call, so that two *)
(* invocations the plugin host runs concurrently interleave at the calls.  *)
(* The k3d client (package client, package config) is a collaborator: its  *)
(* outcomes are chosen nondeterministically among success and failure.     *)
(***************************************************************************)
EXTENDS Integers, Sequences, FiniteSets, TLC

\* Invocations started in one behaviour of Spec.
MaxOps == 3

\* Blocks of one kind in a configuration drawn for SpecExpand.
MaxBlocks == 2

\* The names the user supplies.
Names == {"bar", "baz"}

\* The invocations the plugin host may have in flight at once.
Procs == {"p1", "p2"}

\* types.DefaultObjectNamePrefix of k3d.
DefaultObjectNamePrefix == "k3d"

\* fmt.Sprintf("%s-%s", types.DefaultObjectNamePrefix, name)
ObjectID(name) == DefaultObjectNamePrefix \o "-" \o name

\* fmt.Sprintf("admin@%s-%s", types.DefaultObjectNamePrefix, clusterName)
AuthInfoName(name) == "admin@" \o ObjectID(name)

\* The names of the node containers the runtime can hold.
ContainerNames == {ObjectID(n) : n \in Names}

\* A context of the default kubeconfig that no cluster of this provider owns.
ForeignContext == "minikube"

VARIABLES
    pc,                 \* each invocation's position in its handler
    op,                 \* the handler an invocation runs
    args,               \* the configuration the host hands to the handler
    d,                  \* the invocation's schema.ResourceData: ID and computed attributes
    res,                \* the diagnostics the handler returned
    calls,              \* the collaborator calls the invocation has made, in order
    logged,             \* the errors the invocation wrote to the log as warnings
    simpleConfig,       \* resourceClusterCreate's simpleConfig
    clusterConfig,      \* resourceClusterCreate's clusterConfig
    existingKubeConfig, \* the kubeconfig file as KubeconfigGetWrite loaded it
    registry,           \* resourceRegistryCreate's registry
    freePort,           \* what util.GetFreePort returned to the invocation
    clusters,           \* the runtime's clusters, by cluster name
    nodes,              \* the runtime's node containers, by container name
    kube,               \* the default kubeconfig file
    ops                 \* invocations started so far

vars == <<pc, op, args, d, res, calls, logged, simpleConfig, clusterConfig,
          existingKubeConfig, registry, freePort, clusters, nodes, kube, ops>>

procVars == <<pc, op, args, d, res, calls, logged, simpleConfig, clusterConfig,
              existingKubeConfig, registry, freePort>>

----------------------------------------------------------------------------
(* Values *)

\* A block of a schema.TypeList whose fields are all unset: a nil element.
NilBlock == [nil |-> TRUE]

\* The kubeconfig block lists the schema admits (MaxItems 1).
KubeconfigLists ==
    {<<>>, <<NilBlock>>}
    \cup {<<[nil |-> FALSE, switch_current_context |-> s, update_default_kubeconfig |-> u]>> :
            s \in BOOLEAN, u \in BOOLEAN}

\* The role values the node schema's validation accepts: StringInSlice with
\* ignoreCase accepts "agent" and "server" in any case.
RoleInputs == {"agent", "server", "Server"}

\* The default image of the cluster schema and of the registry schema.
DefaultK3sImage == "rancher/k3s"
DefaultRegistryImage == "registry:2"

\* What d.Get gives for a configuration that sets nothing: the schema's defaults,
\* the zero value where it has none. The cluster's port and volume blocks and
\* the registry's have the same attribute names.
DefaultArgs ==
    [name |-> "", cluster |-> "", role |-> "agent",
     servers |-> 1, agents |-> 0, image |-> DefaultK3sImage, network |-> "", token |-> "",
     env |-> <<>>, label |-> <<>>, volume |-> <<>>, port |-> <<>>, kube_api |-> <<>>,
     k3d |-> <<>>, k3s |-> <<>>, kubeconfig |-> <<>>, runtime |-> <<>>, registries |-> <<>>,
     proxy_remote_url |-> "", proxy_username |-> "", proxy_password |-> ""]

\* A fresh schema.ResourceData: no ID, no computed attribute.
NewResourceData ==
    [id |-> "", network |-> "", token |-> "", credentials |-> <<>>,
     kubeconfig_raw |-> "", cluster |-> "", role |-> ""]

NoResult == [status |-> "none", msg |-> "", cause |-> ""]
\* return nil
Ok == [status |-> "ok", msg |-> "", cause |-> ""]
\* FromErr with the error replaced by a fixed text.
FromErrGeneric(err) == [status |-> "error", msg |-> "operation failed", cause |-> ""]
\* diag.FromErr(err): the diagnostic's summary is err.Error()
FromErr(err) == [status |-> "error", msg |-> err, cause |-> err]
\* diag.Errorf(text): a diagnostic of the given text, which names no collaborator error
Errorf(text) == [status |-> "error", msg |-> text, cause |-> ""]
\* a nil pointer dereference: the handler does not return
Panic == [status |-> "panic", msg |-> "nil pointer dereference", cause |-> ""]

\* a type assertion on a nil interface value: the handler does not return
ConversionPanic ==
    [status |-> "panic", msg |-> "interface conversion: interface {} is nil", cause |-> ""]

\* The error a failed collaborator call returns.
ErrOf(fn) == fn \o " failed"

Call(fn, target, ok, opts) ==
    [fn |-> fn, target |-> target, ok |-> ok, opts |-> opts, arg |-> ""]

\* The calls named fn in an invocation's record.
CallsOf(p, fn) == {i \in 1..Len(calls[p]) : calls[p][i].fn = fn}

\* v1alpha4.SimpleConfigOptions{}
NoOptions ==
    [K3dOptions |-> [NoRollback |-> FALSE, Timeout |-> 0, Wait |-> FALSE,
                     DisableImageVolume |-> FALSE, DisableLoadbalancer |-> FALSE],
     K3sOptions |-> [ExtraArgs |-> <<>>],
     KubeconfigOptions |-> [SwitchCurrentContext |-> FALSE, UpdateDefaultKubeconfig |-> FALSE],
     Runtime |-> [AgentsMemory |-> "", GPURequest |-> "", ServersMemory |-> "", Labels |-> <<>>]]

\* v1alpha4.SimpleConfigRegistries{}
NoRegistries == [Config |-> "", Create |-> <<>>, Use |-> <<>>]

\* v1alpha4.SimpleConfig{}
NoSimpleConfig ==
    [Name |-> "", Agents |-> 0, ClusterToken |-> "", Env |-> <<>>,
     ExposeAPI |-> [Host |-> "", HostIP |-> "", HostPort |-> ""],
     Image |-> "", Network |-> "", Ports |-> <<>>, Servers |-> 0, Volumes |-> <<>>,
     Options |-> NoOptions, Registries |-> NoRegistries]

\* types.Registry{}
NoRegistry ==
    [Host |-> "", Image |-> "",
     ExposureOpts |-> [Port |-> "", HostIP |-> "", HostPort |-> ""],
     Volumes |-> <<>>,
     Proxy |-> [RemoteURL |-> "", Username |-> "", Password |-> ""]]

\* No call of util.GetFreePort yet.
NoFreePort == [port |-> 0, ok |-> FALSE, called |-> FALSE]

NoClusterConfig ==
    [Name |-> "",
     KubeconfigOpts |-> [SwitchCurrentContext |-> FALSE, UpdateDefaultKubeconfig |-> FALSE]]

Absent == [st |-> "absent", by |-> "none"]

AbsentNode == [st |-> "absent", kind |-> "none", by |-> "none", cluster |-> "", role |-> ""]

\* The default kubeconfig before any cluster of this provider was created.
InitialKubeconfig ==
    [contexts |-> [c \in ContainerNames \cup {ForeignContext} |->
                      IF c = ForeignContext THEN "foreign" ELSE ""],
     current |-> ForeignContext]

NoKubeconfig ==
    [contexts |-> [c \in ContainerNames \cup {ForeignContext} |-> ""], current |-> ""]

----------------------------------------------------------------------------
(* Pure functions of the provider *)

expandConfigOptionsKubeconfig(l) ==
    IF Len(l) = 0 \/ l[1].nil
    THEN [SwitchCurrentContext |-> FALSE, UpdateDefaultKubeconfig |-> FALSE]
    ELSE [SwitchCurrentContext |-> l[1].switch_current_context,
          UpdateDefaultKubeconfig |-> l[1].update_default_kubeconfig]

\* WriteKubeConfigOptions with the current context always switched.
WriteKubeConfigOptionsAlwaysSwitch(sc) ==
    [UpdateExisting |-> TRUE, OverwriteExisting |-> FALSE, UpdateCurrentContext |-> TRUE]

\* The options resourceClusterCreate hands to client.KubeconfigGetWrite.
WriteKubeConfigOptions(sc) ==
    [UpdateExisting |-> TRUE, OverwriteExisting |-> FALSE,
     UpdateCurrentContext |-> sc.Options.KubeconfigOptions.SwitchCurrentContext]

\* ClusterResourceID with the prefix the node and the registry use.
ClusterResourceIDPrefixed(name) == ObjectID(name)

\* d.SetId(clusterName) of resourceClusterCreate.
ClusterResourceID(name) == name

\* d.SetId(clusterName) of dataSourceClusterRead.
dataSourceClusterID(name) == name

\* d.SetId(nodeID) of resourceNodeCreate.
NodeResourceID(name) == ObjectID(name)

\* dataSourceNodeID with the lookup key dropped for the display name.
dataSourceNodeIDBare(name) == name

\* d.SetId(nodeID) of dataSourceNodeRead.
dataSourceNodeID(name) == ObjectID(name)

\* d.SetId(registryID) of resourceRegistryCreate.
RegistryResourceID(name) == ObjectID(name)

\* dataSourceRegistryID with the ID of the registry of another name.
dataSourceRegistryIDOfOther(name) == ObjectID(CHOOSE n \in Names : n # name)

\* registryID of dataSourceRegistryRead: the ID it sets and the name it looks up.
dataSourceRegistryID(name) == ObjectID(name)

\* The loop of a list expansion, entered when the list has a first element that
\* is not nil, asserts every element to be a map: a nil element makes it panic.
TypeAssertionPanics(l) ==
    /\ Len(l) # 0
    /\ ~l[1].nil
    /\ \E i \in 1..Len(l) : l[i].nil

\* expandConfigOptionsK3s asserts every extra_args element to be a map, the
\* first one too.
expandConfigOptionsK3sPanics(l) ==
    /\ Len(l) # 0
    /\ ~l[1].nil
    /\ \E i \in 1..Len(l[1].extra_args) : l[1].extra_args[i].nil

\* expandNodeFilters: the filters as given; none given, none handed on.
expandNodeFilters(l) ==
    IF Len(l) = 0 THEN <<>> ELSE [i \in 1..Len(l) |-> l[i]]

expandConfigOptionsK3d(l) ==
    LET opts == [NoRollback |-> FALSE, Timeout |-> 0, Wait |-> TRUE,
                 DisableImageVolume |-> FALSE, DisableLoadbalancer |-> FALSE]
    IN IF Len(l) = 0 \/ l[1].nil
       THEN opts
       ELSE [opts EXCEPT !.DisableImageVolume = l[1].disable_image_volume,
                         !.DisableLoadbalancer = l[1].disable_load_balancer]

expandConfigOptionsK3s(l) ==
    IF Len(l) = 0 \/ l[1].nil
    THEN [ExtraArgs |-> <<>>]
    ELSE [ExtraArgs |-> [i \in 1..Len(l[1].extra_args) |->
                            [Arg |-> l[1].extra_args[i].arg,
                             NodeFilters |-> expandNodeFilters(l[1].extra_args[i].node_filters)]]]

\* expandConfigOptionsRuntime sets the three requests; Labels stays the zero value.
expandConfigOptionsRuntime(l) ==
    IF Len(l) = 0 \/ l[1].nil
    THEN [AgentsMemory |-> "", GPURequest |-> "", ServersMemory |-> "", Labels |-> <<>>]
    ELSE [AgentsMemory |-> l[1].agents_memory, GPURequest |-> l[1].gpu_request,
          ServersMemory |-> l[1].servers_memory, Labels |-> <<>>]

expandEnvVars(l) ==
    IF Len(l) = 0 \/ l[1].nil
    THEN <<>>
    ELSE [i \in 1..Len(l) |->
             [EnvVar |-> l[i].key \o "=" \o l[i].value,
              NodeFilters |-> expandNodeFilters(l[i].node_filters)]]

expandLabels(l) ==
    IF Len(l) = 0 \/ l[1].nil
    THEN <<>>
    ELSE [i \in 1..Len(l) |->
             [Label |-> l[i].key \o "=" \o l[i].value,
              NodeFilters |-> expandNodeFilters(l[i].node_filters)]]

\* What util.GetFreePort can return: a port the system had free, or 0 and an error.
GetFreePort == {[port |-> 49152, ok |-> TRUE], [port |-> 0, ok |-> FALSE]}

\* expandExposureOptions: freePort is what GetFreePort returned, its error dropped.
expandExposureOptions(l, port) ==
    IF Len(l) = 0 \/ l[1].nil
    THEN [Host |-> "", HostIP |-> "", HostPort |-> ToString(port)]
    ELSE [Host |-> l[1].host, HostIP |-> l[1].host_ip,
          HostPort |-> ToString(IF l[1].host_port = 0 THEN port ELSE l[1].host_port)]

\* fmt.Sprintf("%s:%d:%d/%s", host, host_port, container_port, protocol)
PortString(v) ==
    v.host \o ":" \o ToString(v.host_port) \o ":" \o ToString(v.container_port)
        \o "/" \o v.protocol

expandPorts(l) ==
    IF Len(l) = 0 \/ l[1].nil
    THEN <<>>
    ELSE [i \in 1..Len(l) |->
             [Port |-> PortString(l[i]),
              NodeFilters |-> expandNodeFilters(l[i].node_filters)]]

\* VolumeString with the source always written.
VolumeStringAlwaysJoined(v) == v.source \o ":" \o v.destination

\* Lines 748-751: the destination, after the source and a colon where there is a source.
VolumeString(v) ==
    IF v.source # "" THEN v.source \o ":" \o v.destination ELSE v.destination

expandVolumes(l) ==
    IF Len(l) = 0 \/ l[1].nil
    THEN <<>>
    ELSE [i \in 1..Len(l) |->
             [Volume |-> VolumeString(l[i]),
              NodeFilters |-> expandNodeFilters(l[i].node_filters)]]

\* Lines 474-494: the registries block.
expandRegistries(l) ==
    IF Len(l) # 0 /\ ~l[1].nil
    THEN [Config |-> l[1].config,
          Create |-> IF Len(l[1].create) = 1
                     THEN <<[Name |-> l[1].create[1].name, Host |-> l[1].create[1].host,
                             Image |-> l[1].create[1].image,
                             HostPort |-> l[1].create[1].host_port]>>
                     ELSE <<>>,
          Use |-> [i \in 1..Len(l[1].use) |-> l[1].use[i]]]
    ELSE NoRegistries

\* Lines 446-494: simpleConfig as resourceClusterCreate builds it from the flat
\* attributes a. Options is assigned twice: the second assignment replaces the
\* whole of the first, Runtime and its Labels included.
NewSimpleConfig(a, port) ==
    LET first == [NoSimpleConfig EXCEPT
                    !.Name = a.name,
                    !.Agents = a.agents,
                    !.ClusterToken = a.token,
                    !.Env = expandEnvVars(a.env),
                    !.ExposeAPI = expandExposureOptions(a.kube_api, port),
                    !.Image = a.image,
                    !.Network = a.network,
                    !.Ports = expandPorts(a.port),
                    !.Servers = a.servers,
                    !.Volumes = expandVolumes(a.volume),
                    !.Options = [NoOptions EXCEPT !.Runtime.Labels = expandLabels(a.label)]]
        second == [first EXCEPT
                    !.Options = [K3dOptions |-> expandConfigOptionsK3d(a.k3d),
                                 K3sOptions |-> expandConfigOptionsK3s(a.k3s),
                                 KubeconfigOptions |-> expandConfigOptionsKubeconfig(a.kubeconfig),
                                 Runtime |-> expandConfigOptionsRuntime(a.runtime)]]
    IN [second EXCEPT !.Registries = expandRegistries(a.registries)]

\* types.DefaultRegistryPort
DefaultRegistryPort == "5000/tcp"

\* expandExposureOpts of the registry: the container port is the default
\* registry port, the host port the given one or the free port.
expandExposureOpts(l, port) ==
    IF Len(l) = 0 \/ l[1].nil
    THEN [Port |-> DefaultRegistryPort, HostIP |-> "", HostPort |-> ToString(port)]
    ELSE [Port |-> DefaultRegistryPort, HostIP |-> l[1].host_ip,
          HostPort |-> ToString(IF l[1].host_port = 0 THEN port ELSE l[1].host_port)]

expandRegistryVolumes(l) ==
    IF Len(l) = 0 \/ l[1].nil
    THEN <<>>
    ELSE [i \in 1..Len(l) |-> VolumeString(l[i])]

\* Lines 274-287 of resourceRegistryCreate: the registry handed to RegistryRun.
NewRegistry(a, port) ==
    [Host |-> ObjectID(a.name),
     Image |-> a.image,
     ExposureOpts |-> expandExposureOpts(a.port, port),
     Volumes |-> expandRegistryVolumes(a.volume),
     Proxy |-> [RemoteURL |-> a.proxy_remote_url, Username |-> a.proxy_username,
                Password |-> a.proxy_password]]

----------------------------------------------------------------------------
(* The collaborators *)

\* config.TransformSimpleToClusterConfig: the kubeconfig options are carried over.
TransformSimpleToClusterConfig(sc) ==
    [Name |-> sc.Name,
     KubeconfigOpts |-> [SwitchCurrentContext |-> sc.Options.KubeconfigOptions.SwitchCurrentContext,
                         UpdateDefaultKubeconfig |->
                             sc.Options.KubeconfigOptions.UpdateDefaultKubeconfig]]

\* The kubeconfig document client.KubeconfigGet fetches from a cluster.
KubeconfigDocs ==
    [AuthInfos : BOOLEAN, Clusters : BOOLEAN]

\* client.KubeconfigMerge into the loaded file: the new cluster's context is added
\* or updated, the other contexts are kept, and the current context is switched
\* when asked to. With OverwriteExisting the file is replaced by the new
\* cluster's kubeconfig alone.
KubeconfigMerge(existing, name, opts) ==
    IF opts.OverwriteExisting
    THEN [contexts |-> [c \in DOMAIN existing.contexts |->
                           IF c = ObjectID(name) THEN "creds:" \o name ELSE ""],
          current |-> ObjectID(name)]
    ELSE [contexts |-> [existing.contexts EXCEPT ![ObjectID(name)] =
                           IF existing.contexts[ObjectID(name)] = "" \/ opts.UpdateExisting
                           THEN "creds:" \o name ELSE @],
          current |-> IF opts.UpdateCurrentContext THEN ObjectID(name) ELSE existing.current]

----------------------------------------------------------------------------
Init ==
    /\ pc = [p \in Procs |-> "idle"]
    /\ op = [p \in Procs |-> "none"]
    /\ args = [p \in Procs |-> DefaultArgs]
    /\ d = [p \in Procs |-> NewResourceData]
    /\ res = [p \in Procs |-> NoResult]
    /\ calls = [p \in Procs |-> <<>>]
    /\ logged = [p \in Procs |-> {}]
    /\ simpleConfig = [p \in Procs |-> NoSimpleConfig]
    /\ clusterConfig = [p \in Procs |-> NoClusterConfig]
    /\ existingKubeConfig = [p \in Procs |-> NoKubeconfig]
    /\ registry = [p \in Procs |-> NoRegistry]
    /\ freePort = [p \in Procs |-> NoFreePort]
    /\ clusters = [n \in Names |-> Absent]
    /\ nodes = [c \in ContainerNames |-> AbsentNode]
    /\ kube = InitialKubeconfig
    /\ ops = 0

----------------------------------------------------------------------------
(* Steps shared by the handlers *)

NoOpts == [UpdateExisting |-> FALSE, OverwriteExisting |-> FALSE, UpdateCurrentContext |-> FALSE]

\* The invocation makes a collaborator call.
Record(p, call) == calls' = [calls EXCEPT ![p] = Append(@, call)]

\* The handler returns r.
Return(p, r) ==
    /\ pc' = [pc EXCEPT ![p] = "done"]
    /\ res' = [res EXCEPT ![p] = r]

\* The handler goes on to its next collaborator call.
Goto(p, next) ==
    /\ pc' = [pc EXCEPT ![p] = next]
    /\ UNCHANGED res

\* log.Printf("[WARN] %s", err)
Warn(p, err) == logged' = [logged EXCEPT ![p] = @ \cup {err}]

\* The host starts handler kind with configuration a on fresh or stored resource data.
Start(p, kind, a, data, first) ==
    /\ pc[p] = "idle"
    /\ ops < MaxOps
    /\ ops' = ops + 1
    /\ pc' = [pc EXCEPT ![p] = first]
    /\ op' = [op EXCEPT ![p] = kind]
    /\ args' = [args EXCEPT ![p] = a]
    /\ d' = [d EXCEPT ![p] = data]
    /\ res' = [res EXCEPT ![p] = NoResult]
    /\ calls' = [calls EXCEPT ![p] = <<>>]
    /\ logged' = [logged EXCEPT ![p] = {}]

\* What client.ClusterGet can answer for a cluster in state st.
ClusterGetAnswers(st) ==
    {"error"} \cup (IF st = "absent" THEN {"notfound"}
                    ELSE IF st = "partial" THEN {"found", "notfound"}
                    ELSE {"found"})

----------------------------------------------------------------------------
(* resourceClusterCreate *)

\* Lines 443-494: the flat attributes are expanded into simpleConfig.
resourceClusterCreateBuild(p) ==
    \E n \in Names, k \in KubeconfigLists, fp \in GetFreePort :
        LET a == [DefaultArgs EXCEPT !.name = n, !.kubeconfig = k] IN
        /\ Start(p, "resourceClusterCreate", a, NewResourceData, "transform")
        /\ freePort' = [freePort EXCEPT ![p] = [port |-> fp.port, ok |-> fp.ok, called |-> TRUE]]
        /\ simpleConfig' = [simpleConfig EXCEPT ![p] = NewSimpleConfig(a, fp.port)]
        /\ clusterConfig' = [clusterConfig EXCEPT ![p] = NoClusterConfig]
        /\ UNCHANGED <<existingKubeConfig, registry, clusters, nodes, kube>>

\* AfterStage with process and validate skipped.
AfterStageSkipping(p, ok, fn, next) ==
    IF ok THEN Goto(p, "exists") ELSE Return(p, FromErr(ErrOf(fn)))

\* AfterStage with the error of a stage dropped.
AfterStageIgnoringError(p, ok, fn, next) == Goto(p, next)

\* Where a stage of the pipeline leads: on to the next stage, or out with its error.
AfterStage(p, ok, fn, next) ==
    IF ok THEN Goto(p, next) ELSE Return(p, FromErr(ErrOf(fn)))

\* config.TransformSimpleToClusterConfig and its error return.
resourceClusterCreateTransform(p) ==
    /\ pc[p] = "transform"
    /\ \E ok \in BOOLEAN :
        /\ Record(p, Call("TransformSimpleToClusterConfig", args[p].name, ok, NoOpts))
        /\ clusterConfig' = [clusterConfig EXCEPT ![p] =
                                IF ok THEN TransformSimpleToClusterConfig(simpleConfig[p]) ELSE @]
        /\ AfterStage(p, ok, "TransformSimpleToClusterConfig", "process")
    /\ UNCHANGED <<op, args, d, logged, simpleConfig, existingKubeConfig,
                   registry, freePort, clusters, nodes, kube, ops>>

\* config.ProcessClusterConfig and its error return.
resourceClusterCreateProcess(p) ==
    /\ pc[p] = "process"
    /\ \E ok \in BOOLEAN :
        /\ Record(p, Call("ProcessClusterConfig", args[p].name, ok, NoOpts))
        /\ AfterStage(p, ok, "ProcessClusterConfig", "validate")
    /\ UNCHANGED <<op, args, d, logged, simpleConfig, clusterConfig, existingKubeConfig,
                   registry, freePort, clusters, nodes, kube, ops>>

\* config.ValidateClusterConfig and its error return.
resourceClusterCreateValidate(p) ==
    /\ pc[p] = "validate"
    /\ \E ok \in BOOLEAN :
        /\ Record(p, Call("ValidateClusterConfig", args[p].name, ok, NoOpts))
        /\ AfterStage(p, ok, "ValidateClusterConfig", "exists")
    /\ UNCHANGED <<op, args, d, logged, simpleConfig, clusterConfig, existingKubeConfig,
                   registry, freePort, clusters, nodes, kube, ops>>

\* AfterExistenceCheck with the answer of ClusterGet dropped.
AfterExistenceCheckIgnored(p, answer) == Goto(p, "run")

\* Line 514: only err == nil, the cluster was found, stops the creation.
AfterExistenceCheck(p, answer) ==
    IF answer = "found"
    THEN Return(p, Errorf("Failed to create cluster because a cluster with that name already exists"))
    ELSE Goto(p, "run")

\* client.ClusterGet for clusterConfig.Cluster, before the cluster is created.
resourceClusterCreateExists(p) ==
    /\ pc[p] = "exists"
    /\ \E answer \in ClusterGetAnswers(clusters[clusterConfig[p].Name].st) :
        /\ Record(p, [Call("ClusterGet", clusterConfig[p].Name, answer = "found", NoOpts)
                          EXCEPT !.arg = answer])
        /\ AfterExistenceCheck(p, answer)
    /\ UNCHANGED <<op, args, d, logged, simpleConfig, clusterConfig, existingKubeConfig,
                   registry, freePort, clusters, nodes, kube, ops>>

\* AfterClusterRun without the rollback branch.
AfterClusterRunNoRollback(p, ok) == Goto(p, "kubeconfig")

\* Line 519: a failed ClusterRun leads to the rollback, a successful one past it.
AfterClusterRun(p, ok) ==
    Goto(p, IF ok THEN "kubeconfig" ELSE "rollback")

\* client.ClusterRun: it succeeds only where no cluster of that name is, and a
\* failed run may leave part of the cluster behind.
resourceClusterCreateRun(p) ==
    /\ pc[p] = "run"
    /\ LET n == clusterConfig[p].Name IN
       \E after \in (IF clusters[n].st = "absent"
                     THEN {[st |-> "ready", by |-> p], [st |-> "partial", by |-> p], Absent}
                     ELSE {clusters[n]}) :
        LET ok == clusters[n].st = "absent" /\ after.st = "ready" IN
        /\ clusters' = [clusters EXCEPT ![n] = after]
        /\ Record(p, Call("ClusterRun", n, ok, NoOpts))
        /\ AfterClusterRun(p, ok)
    /\ UNCHANGED <<op, args, d, logged, simpleConfig, clusterConfig, existingKubeConfig,
                   registry, freePort, nodes, kube, ops>>

\* Line 521: the cluster the rollback deletes.
RollbackTarget(p) == args[p].name

\* RollbackResult with a failed rollback reported as the creation error.
RollbackResultPlain(deleted) == FromErr(ErrOf("ClusterRun"))

\* Lines 521-524: what Create returns after the rollback.
RollbackResult(deleted) ==
    IF deleted
    THEN FromErr(ErrOf("ClusterRun"))
    ELSE Errorf("Cluster creation FAILED, also FAILED to rollback changes!")

\* client.ClusterDelete after a failed ClusterRun.
resourceClusterCreateRollback(p) ==
    /\ pc[p] = "rollback"
    /\ \E deleted \in BOOLEAN :
        /\ clusters' = [clusters EXCEPT ![RollbackTarget(p)] = IF deleted THEN Absent ELSE @]
        /\ Record(p, Call("ClusterDelete", RollbackTarget(p), deleted, NoOpts))
        /\ Return(p, RollbackResult(deleted))
    /\ UNCHANGED <<op, args, d, logged, simpleConfig, clusterConfig, existingKubeConfig,
                   registry, freePort, nodes, kube, ops>>

\* Line 528: whether Create writes the default kubeconfig.
UpdatesDefaultKubeconfig(p) == clusterConfig[p].KubeconfigOpts.UpdateDefaultKubeconfig

\* Line 534: d.SetId(clusterName).
resourceClusterCreateSetId(p) ==
    d' = [d EXCEPT ![p].id = ClusterResourceID(args[p].name)]

\* AfterKubeconfigGetWrite with the error returned instead of logged.
AfterKubeconfigGetWriteFatal(p, ok) ==
    IF ok
    THEN /\ resourceClusterCreateSetId(p)
         /\ Goto(p, "read")
         /\ UNCHANGED logged
    ELSE /\ Return(p, FromErr(ErrOf("KubeconfigGetWrite")))
         /\ UNCHANGED <<d, logged>>

\* Lines 529-536: an error of KubeconfigGetWrite is logged, and Create goes on to
\* set the ID and to read the cluster back.
AfterKubeconfigGetWrite(p, ok) ==
    /\ logged' = [logged EXCEPT ![p] = IF ok THEN @ ELSE @ \cup {ErrOf("KubeconfigGetWrite")}]
    /\ resourceClusterCreateSetId(p)
    /\ Goto(p, "read")

\* Line 528 with the option off: no kubeconfig call; the ID is set.
resourceClusterCreateNoKubeconfig(p) ==
    /\ pc[p] = "kubeconfig"
    /\ ~UpdatesDefaultKubeconfig(p)
    /\ resourceClusterCreateSetId(p)
    /\ Goto(p, "read")
    /\ UNCHANGED <<op, args, calls, logged, simpleConfig, clusterConfig, existingKubeConfig,
                   registry, freePort, clusters, nodes, kube, ops>>

\* client.KubeconfigGetWrite, first half: the cluster's kubeconfig is fetched and
\* the default kubeconfig file is loaded. The provider holds no lock around the
\* call, so another invocation may write the file before this one does.
resourceClusterCreateKubeconfigLoad(p) ==
    /\ pc[p] = "kubeconfig"
    /\ UpdatesDefaultKubeconfig(p)
    /\ \/ /\ existingKubeConfig' = [existingKubeConfig EXCEPT ![p] = kube]
          /\ Goto(p, "kubeconfig_write")
          /\ UNCHANGED <<d, calls, logged>>
       \/ /\ Record(p, Call("KubeconfigGetWrite", clusterConfig[p].Name, FALSE,
                            WriteKubeConfigOptions(simpleConfig[p])))
          /\ AfterKubeconfigGetWrite(p, FALSE)
          /\ UNCHANGED existingKubeConfig
    /\ UNCHANGED <<op, args, simpleConfig, clusterConfig, registry, freePort,
                   clusters, nodes, kube, ops>>

\* client.KubeconfigGetWrite, second half: the merged kubeconfig is written over the
\* file (or the write fails, which is logged); then the ID is set.
resourceClusterCreateKubeconfigWrite(p) ==
    /\ pc[p] = "kubeconfig_write"
    /\ LET opts == WriteKubeConfigOptions(simpleConfig[p]) IN
       \E ok \in BOOLEAN :
        /\ kube' = IF ok THEN KubeconfigMerge(existingKubeConfig[p], clusterConfig[p].Name, opts)
                   ELSE kube
        /\ Record(p, Call("KubeconfigGetWrite", clusterConfig[p].Name, ok, opts))
        /\ AfterKubeconfigGetWrite(p, ok)
    /\ UNCHANGED <<op, args, simpleConfig, clusterConfig, existingKubeConfig,
                   registry, freePort, clusters, nodes, ops>>

----------------------------------------------------------------------------
(* resourceClusterRead, also the tail of resourceClusterCreate *)

\* What the runtime reports for a cluster.
NetworkOf(name) == ObjectID(name)
TokenOf(name) == "token:" \o name

\* ReadCluster with the token left out.
ReadClusterWithoutToken(data, name) == [data EXCEPT !.network = NetworkOf(name)]

\* d.Set("network", cluster.Network.Name) and d.Set("token", cluster.Token).
ReadCluster(data, name) ==
    [data EXCEPT !.network = NetworkOf(name), !.token = TokenOf(name)]

\* flattenCredentials dereferences config.AuthInfos[authInfoName] and
\* config.Clusters[clusterID]: a missing entry is a nil pointer.
flattenCredentialsPanics(doc) == ~doc.AuthInfos \/ ~doc.Clusters

flattenCredentials(clusterName, doc) ==
    <<[client_certificate |-> "cert:" \o AuthInfoName(clusterName),
       client_key |-> "key:" \o AuthInfoName(clusterName),
       cluster_ca_certificate |-> "ca:" \o ObjectID(clusterName),
       host |-> "server:" \o ObjectID(clusterName),
       raw |-> "raw:" \o clusterName]>>

\* The host calls Read on the state Create stored.
resourceClusterReadStart(p) ==
    \E n \in Names :
        /\ Start(p, "resourceClusterRead", [DefaultArgs EXCEPT !.name = n],
                 [NewResourceData EXCEPT !.id = ClusterResourceID(n)], "read")
        /\ UNCHANGED <<simpleConfig, clusterConfig, existingKubeConfig,
                     registry, freePort, clusters, nodes, kube>>

\* client.ClusterGet by the bare name; network and token are set from its answer.
resourceClusterReadGet(p) ==
    /\ pc[p] = "read"
    /\ \E answer \in ClusterGetAnswers(clusters[args[p].name].st) :
        /\ Record(p, [Call("ClusterGet", args[p].name, answer = "found", NoOpts)
                          EXCEPT !.arg = answer])
        /\ IF answer = "found"
           THEN /\ d' = [d EXCEPT ![p] = ReadCluster(@, args[p].name)]
                /\ Goto(p, "read_kubeconfig")
           ELSE /\ Return(p, FromErr(ErrOf("ClusterGet")))
                /\ UNCHANGED d
    /\ UNCHANGED <<op, args, logged, simpleConfig, clusterConfig, existingKubeConfig,
                   registry, freePort, clusters, nodes, kube, ops>>

\* client.KubeconfigGet: a failure is logged; a document is flattened into credentials.
resourceClusterReadKubeconfig(p) ==
    /\ pc[p] = "read_kubeconfig"
    /\ \/ /\ Record(p, Call("KubeconfigGet", args[p].name, FALSE, NoOpts))
          /\ Warn(p, ErrOf("KubeconfigGet"))
          /\ Return(p, Ok)
          /\ UNCHANGED d
       \/ \E doc \in KubeconfigDocs :
          /\ Record(p, Call("KubeconfigGet", args[p].name, TRUE, NoOpts))
          /\ IF flattenCredentialsPanics(doc)
             THEN Return(p, Panic) /\ UNCHANGED d
             ELSE /\ d' = [d EXCEPT ![p].credentials = flattenCredentials(args[p].name, doc)]
                  /\ Return(p, Ok)
          /\ UNCHANGED logged
    /\ UNCHANGED <<op, args, simpleConfig, clusterConfig, existingKubeConfig,
                   registry, freePort, clusters, nodes, kube, ops>>

----------------------------------------------------------------------------
(* dataSourceClusterRead *)

\* Lines 53-54: the ID is set before the lookup.
dataSourceClusterReadStart(p) ==
    \E n \in Names :
        /\ Start(p, "dataSourceClusterRead", [DefaultArgs EXCEPT !.name = n],
                 [NewResourceData EXCEPT !.id = dataSourceClusterID(n)], "ds_read")
        /\ UNCHANGED <<simpleConfig, clusterConfig, existingKubeConfig,
                     registry, freePort, clusters, nodes, kube>>

dataSourceClusterReadGet(p) ==
    /\ pc[p] = "ds_read"
    /\ \E answer \in ClusterGetAnswers(clusters[args[p].name].st) :
        /\ Record(p, [Call("ClusterGet", args[p].name, answer = "found", NoOpts)
                          EXCEPT !.arg = answer])
        /\ IF answer = "found"
           THEN /\ d' = [d EXCEPT ![p] = ReadCluster(@, args[p].name)]
                /\ Goto(p, "ds_read_kubeconfig")
           ELSE /\ Return(p, FromErr(ErrOf("ClusterGet")))
                /\ UNCHANGED d
    /\ UNCHANGED <<op, args, logged, simpleConfig, clusterConfig, existingKubeConfig,
                   registry, freePort, clusters, nodes, kube, ops>>

\* client.KubeconfigGet and clientcmd.Write: either failure is logged.
dataSourceClusterReadKubeconfig(p) ==
    /\ pc[p] = "ds_read_kubeconfig"
    /\ \/ /\ Record(p, Call("KubeconfigGet", args[p].name, FALSE, NoOpts))
          /\ Warn(p, ErrOf("KubeconfigGet"))
          /\ UNCHANGED d
       \/ /\ Record(p, Call("KubeconfigGet", args[p].name, TRUE, NoOpts))
          /\ \/ /\ d' = [d EXCEPT ![p].kubeconfig_raw = "raw:" \o args[p].name]
                /\ UNCHANGED logged
             \/ /\ Warn(p, ErrOf("clientcmd.Write"))
                /\ UNCHANGED d
    /\ Return(p, Ok)
    /\ UNCHANGED <<op, args, simpleConfig, clusterConfig, existingKubeConfig,
                   registry, freePort, clusters, nodes, kube, ops>>

----------------------------------------------------------------------------
(* resourceClusterDelete *)

resourceClusterDeleteStart(p) ==
    \E n \in Names :
        /\ Start(p, "resourceClusterDelete", [DefaultArgs EXCEPT !.name = n],
                 [NewResourceData EXCEPT !.id = ClusterResourceID(n)], "delete")
        /\ UNCHANGED <<simpleConfig, clusterConfig, existingKubeConfig,
                     registry, freePort, clusters, nodes, kube>>

\* client.ClusterDelete by the bare name.
resourceClusterDeleteCall(p) ==
    /\ pc[p] = "delete"
    /\ \E deleted \in BOOLEAN :
        /\ clusters' = [clusters EXCEPT ![args[p].name] = IF deleted THEN Absent ELSE @]
        /\ Record(p, Call("ClusterDelete", args[p].name, deleted, NoOpts))
        /\ Return(p, IF deleted THEN Ok ELSE FromErr(ErrOf("ClusterDelete")))
    /\ UNCHANGED <<op, args, d, logged, simpleConfig, clusterConfig, existingKubeConfig,
                   registry, freePort, nodes, kube, ops>>

----------------------------------------------------------------------------
(* The node containers of the runtime: nodes and registries alike *)

\* What client.NodeGet can answer for a container in state st.
NodeGetAnswers(st) ==
    {"error"} \cup (IF st = "absent" THEN {"notfound"} ELSE {"found"})

\* types.NodeRoles[role]: a key the map lacks gives the zero value.
NodeRoles(role) ==
    CASE role = "server" -> "server"
      [] role = "agent" -> "agent"
      [] OTHER -> ""

\* What a create call of the runtime can leave at container name c: the container
\* running, part of it, or nothing; where a container of that name is, it fails.
CreateOutcomes(c, made, possible) ==
    IF nodes[c].st = "absent" /\ possible
    THEN {made, [made EXCEPT !.st = "partial"], AbsentNode}
    ELSE {nodes[c]}

----------------------------------------------------------------------------
(* resourceNodeCreate, resourceNodeRead, resourceNodeDelete, dataSourceNodeRead *)

resourceNodeCreateStart(p) ==
    \E n \in Names, c \in Names, r \in RoleInputs :
        /\ Start(p, "resourceNodeCreate",
                 [DefaultArgs EXCEPT !.name = n, !.cluster = c, !.role = r],
                 NewResourceData, "node_add")
        /\ UNCHANGED <<simpleConfig, clusterConfig, existingKubeConfig,
                     registry, freePort, clusters, nodes, kube>>

\* AfterNodeAdd with the ID set whatever NodeAddToCluster returned.
AfterNodeAddSettingId(p, ok) ==
    /\ d' = [d EXCEPT ![p].id = NodeResourceID(args[p].name)]
    /\ IF ok THEN Goto(p, "node_read") ELSE Return(p, FromErr(ErrOf("NodeAddToCluster")))

\* Lines 86-90: a failed NodeAddToCluster is returned as it is; after a
\* successful one the ID is set.
AfterNodeAdd(p, ok) ==
    IF ok
    THEN /\ d' = [d EXCEPT ![p].id = NodeResourceID(args[p].name)]
         /\ Goto(p, "node_read")
    ELSE /\ Return(p, FromErr(ErrOf("NodeAddToCluster")))
         /\ UNCHANGED d

\* client.NodeAddToCluster: it needs the cluster to be there.
resourceNodeCreateAdd(p) ==
    /\ pc[p] = "node_add"
    /\ LET nodeID == ObjectID(args[p].name)
           node == [st |-> "ready", kind |-> "node", by |-> p,
                    cluster |-> args[p].cluster, role |-> NodeRoles(args[p].role)]
       IN \E after \in CreateOutcomes(nodeID, node, clusters[args[p].cluster].st = "ready") :
           LET ok == nodes[nodeID].st = "absent" /\ after.st = "ready" IN
           /\ nodes' = [nodes EXCEPT ![nodeID] = after]
           /\ Record(p, [Call("NodeAddToCluster", nodeID, ok, NoOpts) EXCEPT !.arg = node.role])
           /\ AfterNodeAdd(p, ok)
    /\ UNCHANGED <<op, args, logged, simpleConfig, clusterConfig, existingKubeConfig,
                   registry, freePort, clusters, kube, ops>>

resourceNodeReadStart(p) ==
    \E n \in Names :
        /\ Start(p, "resourceNodeRead", [DefaultArgs EXCEPT !.name = n],
                 [NewResourceData EXCEPT !.id = NodeResourceID(n)], "node_read")
        /\ UNCHANGED <<simpleConfig, clusterConfig, existingKubeConfig,
                     registry, freePort, clusters, nodes, kube>>

\* client.NodeGet by the node ID; nothing is set from its answer.
resourceNodeReadGet(p) ==
    /\ pc[p] = "node_read"
    /\ \E answer \in NodeGetAnswers(nodes[ObjectID(args[p].name)].st) :
        /\ Record(p, [Call("NodeGet", ObjectID(args[p].name), answer = "found", NoOpts)
                          EXCEPT !.arg = answer])
        /\ Return(p, IF answer = "found" THEN Ok ELSE FromErr(ErrOf("NodeGet")))
    /\ UNCHANGED <<op, args, d, logged, simpleConfig, clusterConfig, existingKubeConfig,
                   registry, freePort, clusters, nodes, kube, ops>>

resourceNodeDeleteStart(p) ==
    \E n \in Names :
        /\ Start(p, "resourceNodeDelete", [DefaultArgs EXCEPT !.name = n],
                 [NewResourceData EXCEPT !.id = NodeResourceID(n)], "node_delete")
        /\ UNCHANGED <<simpleConfig, clusterConfig, existingKubeConfig,
                     registry, freePort, clusters, nodes, kube>>

\* client.NodeDelete by the node ID.
resourceNodeDeleteCall(p) ==
    /\ pc[p] = "node_delete"
    /\ \E deleted \in BOOLEAN :
        /\ nodes' = [nodes EXCEPT ![ObjectID(args[p].name)] = IF deleted THEN AbsentNode ELSE @]
        /\ Record(p, Call("NodeDelete", ObjectID(args[p].name), deleted, NoOpts))
        /\ Return(p, IF deleted THEN Ok ELSE FromErr(ErrOf("NodeDelete")))
    /\ UNCHANGED <<op, args, d, logged, simpleConfig, clusterConfig, existingKubeConfig,
                   registry, freePort, clusters, kube, ops>>

\* Lines 43-45: the ID is set before the lookup.
dataSourceNodeReadStart(p) ==
    \E n \in Names :
        /\ Start(p, "dataSourceNodeRead", [DefaultArgs EXCEPT !.name = n],
                 [NewResourceData EXCEPT !.id = dataSourceNodeID(n)], "ds_node_read")
        /\ UNCHANGED <<simpleConfig, clusterConfig, existingKubeConfig,
                     registry, freePort, clusters, nodes, kube>>

\* client.NodeGet by the node ID; cluster and role are set from its answer.
dataSourceNodeReadGet(p) ==
    /\ pc[p] = "ds_node_read"
    /\ LET nodeID == ObjectID(args[p].name) IN
       \E answer \in NodeGetAnswers(nodes[nodeID].st) :
        /\ Record(p, [Call("NodeGet", nodeID, answer = "found", NoOpts) EXCEPT !.arg = answer])
        /\ IF answer = "found"
           THEN /\ d' = [d EXCEPT ![p].cluster = nodes[nodeID].cluster,
                                  ![p].role = nodes[nodeID].role]
                /\ Return(p, Ok)
           ELSE /\ Return(p, FromErr(ErrOf("NodeGet")))
                /\ UNCHANGED d
    /\ UNCHANGED <<op, args, logged, simpleConfig, clusterConfig, existingKubeConfig,
                   registry, freePort, clusters, nodes, kube, ops>>

----------------------------------------------------------------------------
(* resourceRegistryCreate, resourceRegistryRead, resourceRegistryDelete,
   dataSourceRegistryRead *)

resourceRegistryCreateStart(p) ==
    \E n \in Names, fp \in GetFreePort :
        LET a == [DefaultArgs EXCEPT !.name = n, !.image = DefaultRegistryImage] IN
        /\ Start(p, "resourceRegistryCreate", a, NewResourceData, "registry_run")
        /\ freePort' = [freePort EXCEPT ![p] = [port |-> fp.port, ok |-> fp.ok, called |-> TRUE]]
        /\ registry' = [registry EXCEPT ![p] = NewRegistry(a, fp.port)]
        /\ UNCHANGED <<simpleConfig, clusterConfig, existingKubeConfig, clusters, nodes, kube>>

\* Lines 289-293: a failed RegistryRun is returned as it is; after a successful
\* one the ID is set.
AfterRegistryRun(p, ok) ==
    IF ok
    THEN /\ d' = [d EXCEPT ![p].id = RegistryResourceID(args[p].name)]
         /\ Goto(p, "registry_read")
    ELSE /\ Return(p, FromErr(ErrOf("RegistryRun")))
         /\ UNCHANGED d

\* client.RegistryRun: the registry is a node container named by registry.Host.
resourceRegistryCreateRun(p) ==
    /\ pc[p] = "registry_run"
    /\ LET registryID == registry[p].Host
           container == [st |-> "ready", kind |-> "registry", by |-> p,
                         cluster |-> "", role |-> "registry"]
       IN \E after \in CreateOutcomes(registryID, container, TRUE) :
           LET ok == nodes[registryID].st = "absent" /\ after.st = "ready" IN
           /\ nodes' = [nodes EXCEPT ![registryID] = after]
           /\ Record(p, Call("RegistryRun", registryID, ok, NoOpts))
           /\ AfterRegistryRun(p, ok)
    /\ UNCHANGED <<op, args, logged, simpleConfig, clusterConfig, existingKubeConfig,
                   registry, freePort, clusters, kube, ops>>

resourceRegistryReadStart(p) ==
    \E n \in Names :
        /\ Start(p, "resourceRegistryRead", [DefaultArgs EXCEPT !.name = n],
                 [NewResourceData EXCEPT !.id = RegistryResourceID(n)], "registry_read")
        /\ UNCHANGED <<simpleConfig, clusterConfig, existingKubeConfig,
                     registry, freePort, clusters, nodes, kube>>

\* client.NodeGet by the registry ID.
resourceRegistryReadGet(p) ==
    /\ pc[p] = "registry_read"
    /\ \E answer \in NodeGetAnswers(nodes[ObjectID(args[p].name)].st) :
        /\ Record(p, [Call("NodeGet", ObjectID(args[p].name), answer = "found", NoOpts)
                          EXCEPT !.arg = answer])
        /\ Return(p, IF answer = "found" THEN Ok ELSE FromErr(ErrOf("NodeGet")))
    /\ UNCHANGED <<op, args, d, logged, simpleConfig, clusterConfig, existingKubeConfig,
                   registry, freePort, clusters, nodes, kube, ops>>

resourceRegistryDeleteStart(p) ==
    \E n \in Names :
        /\ Start(p, "resourceRegistryDelete", [DefaultArgs EXCEPT !.name = n],
                 [NewResourceData EXCEPT !.id = RegistryResourceID(n)], "registry_delete")
        /\ UNCHANGED <<simpleConfig, clusterConfig, existingKubeConfig,
                     registry, freePort, clusters, nodes, kube>>

\* client.NodeDelete by the registry ID.
resourceRegistryDeleteCall(p) ==
    /\ pc[p] = "registry_delete"
    /\ \E deleted \in BOOLEAN :
        /\ nodes' = [nodes EXCEPT ![ObjectID(args[p].name)] = IF deleted THEN AbsentNode ELSE @]
        /\ Record(p, Call("NodeDelete", ObjectID(args[p].name), deleted, NoOpts))
        /\ Return(p, IF deleted THEN Ok ELSE FromErr(ErrOf("NodeDelete")))
    /\ UNCHANGED <<op, args, d, logged, simpleConfig, clusterConfig, existingKubeConfig,
                   registry, freePort, clusters, kube, ops>>

\* Lines 414-416: the ID is set before the lookup.
dataSourceRegistryReadStart(p) ==
    \E n \in Names :
        /\ Start(p, "dataSourceRegistryRead", [DefaultArgs EXCEPT !.name = n],
                 [NewResourceData EXCEPT !.id = dataSourceRegistryID(n)], "ds_registry_read")
        /\ UNCHANGED <<simpleConfig, clusterConfig, existingKubeConfig,
                     registry, freePort, clusters, nodes, kube>>

\* client.NodeGet by the registry ID.
dataSourceRegistryReadGet(p) ==
    /\ pc[p] = "ds_registry_read"
    /\ LET registryID == dataSourceRegistryID(args[p].name) IN
       \E answer \in NodeGetAnswers(nodes[registryID].st) :
        /\ Record(p, [Call("NodeGet", registryID, answer = "found", NoOpts)
                          EXCEPT !.arg = answer])
        /\ Return(p, IF answer = "found" THEN Ok ELSE FromErr(ErrOf("NodeGet")))
    /\ UNCHANGED <<op, args, d, logged, simpleConfig, clusterConfig, existingKubeConfig,
                   registry, freePort, clusters, nodes, kube, ops>>

----------------------------------------------------------------------------
(* The plugin host *)

\* The handler has returned: the invocation is over, and what it made in the
\* runtime is from now on what the next invocation finds there.
InvocationEnds(p) ==
    /\ pc[p] = "done"
    /\ pc' = [pc EXCEPT ![p] = "idle"]
    /\ op' = [op EXCEPT ![p] = "none"]
    /\ args' = [args EXCEPT ![p] = DefaultArgs]
    /\ d' = [d EXCEPT ![p] = NewResourceData]
    /\ res' = [res EXCEPT ![p] = NoResult]
    /\ calls' = [calls EXCEPT ![p] = <<>>]
    /\ logged' = [logged EXCEPT ![p] = {}]
    /\ simpleConfig' = [simpleConfig EXCEPT ![p] = NoSimpleConfig]
    /\ clusterConfig' = [clusterConfig EXCEPT ![p] = NoClusterConfig]
    /\ existingKubeConfig' = [existingKubeConfig EXCEPT ![p] = NoKubeconfig]
    /\ registry' = [registry EXCEPT ![p] = NoRegistry]
    /\ freePort' = [freePort EXCEPT ![p] = NoFreePort]
    /\ clusters' = [n \in Names |->
                       IF clusters[n].by = p THEN [clusters[n] EXCEPT !.by = "earlier"]
                       ELSE clusters[n]]
    /\ nodes' = [c \in ContainerNames |->
                    IF nodes[c].by = p THEN [nodes[c] EXCEPT !.by = "earlier"] ELSE nodes[c]]
    /\ UNCHANGED <<kube, ops>>

\* The steps of resourceClusterCreate, through the Read it ends with.
ClusterCreateStep(p) ==
    \/ resourceClusterCreateBuild(p)
    \/ resourceClusterCreateTransform(p)
    \/ resourceClusterCreateProcess(p)
    \/ resourceClusterCreateValidate(p)
    \/ resourceClusterCreateExists(p)
    \/ resourceClusterCreateRun(p)
    \/ resourceClusterCreateRollback(p)
    \/ resourceClusterCreateNoKubeconfig(p)
    \/ resourceClusterCreateKubeconfigLoad(p)
    \/ resourceClusterCreateKubeconfigWrite(p)
    \/ resourceClusterReadGet(p)
    \/ resourceClusterReadKubeconfig(p)

OtherStep(p) ==
    \/ resourceClusterReadStart(p)
    \/ dataSourceClusterReadStart(p)
    \/ dataSourceClusterReadGet(p)
    \/ dataSourceClusterReadKubeconfig(p)
    \/ resourceClusterDeleteStart(p)
    \/ resourceClusterDeleteCall(p)
    \/ resourceNodeCreateStart(p)
    \/ resourceNodeCreateAdd(p)
    \/ resourceNodeReadStart(p)
    \/ resourceNodeReadGet(p)
    \/ resourceNodeDeleteStart(p)
    \/ resourceNodeDeleteCall(p)
    \/ dataSourceNodeReadStart(p)
    \/ dataSourceNodeReadGet(p)
    \/ resourceRegistryCreateStart(p)
    \/ resourceRegistryCreateRun(p)
    \/ resourceRegistryReadStart(p)
    \/ resourceRegistryReadGet(p)
    \/ resourceRegistryDeleteStart(p)
    \/ resourceRegistryDeleteCall(p)
    \/ dataSourceRegistryReadStart(p)
    \/ dataSourceRegistryReadGet(p)
    \/ InvocationEnds(p)

\* One invocation after the other: every handler, any order.
Next == ClusterCreateStep("p1") \/ OtherStep("p1")

Spec == Init /\ [][Next]_vars

\* Two cluster creations the host runs at once, each to its return.
NextConcurrent == \E p \in Procs : ClusterCreateStep(p)

SpecConcurrent == Init /\ [][NextConcurrent]_vars

----------------------------------------------------------------------------
(* The expansion of the flat attributes, on configurations of every shape *)

\* The lists of at most MaxBlocks blocks of S.
ListsOf(S) == UNION {[1..k -> S] : k \in 0..MaxBlocks}

\* node_filters: not given, or given.
NodeFilterLists == {<<>>, <<"agent:0">>}

\* env and label blocks: key is required.
KeyValueBlocks ==
    {[nil |-> FALSE, key |-> "stage", value |-> v, node_filters |-> f] :
        v \in {"", "dev"}, f \in NodeFilterLists}

\* volume blocks: destination is required.
VolumeBlocks ==
    {[nil |-> FALSE, source |-> s, destination |-> "/data", node_filters |-> f] :
        s \in {"", "/srv"}, f \in NodeFilterLists}

\* port blocks: container_port is required and a port number; host_port is a
\* port number or unset, which d.Get gives as 0; protocol is TCP or UDP or
\* unset, which d.Get gives as "".
PortBlocks ==
    {[nil |-> FALSE, host |-> h, host_port |-> hp, container_port |-> 80,
      protocol |-> pr, node_filters |-> f] :
        h \in {"", "localhost"}, hp \in {0, 8080}, pr \in {"", "UDP"},
        f \in {<<>>, <<"loadbalancer">>}}

\* kube_api lists (MaxItems 1): host_port is a port number or unset.
KubeApiLists ==
    {<<>>, <<NilBlock>>}
    \cup {<<[nil |-> FALSE, host |-> "", host_ip |-> ip, host_port |-> hp]>> :
            ip \in {"", "127.0.0.1"}, hp \in {0, 6443}}

K3dLists ==
    {<<>>, <<NilBlock>>}
    \cup {<<[nil |-> FALSE, disable_image_volume |-> v, disable_load_balancer |-> b]>> :
            v \in BOOLEAN, b \in BOOLEAN}

K3sLists ==
    {<<>>, <<NilBlock>>}
    \cup {<<[nil |-> FALSE, extra_args |-> e]>> :
            e \in ListsOf({NilBlock}
                          \cup {[nil |-> FALSE, arg |-> "--no-deploy=traefik", node_filters |-> f] :
                                  f \in NodeFilterLists})}

RuntimeLists ==
    {<<>>, <<NilBlock>>}
    \cup {<<[nil |-> FALSE, agents_memory |-> m, gpu_request |-> g, servers_memory |-> m]>> :
            m \in {"", "1g"}, g \in {"", "all"}}

RegistriesLists ==
    {<<>>, <<NilBlock>>}
    \cup {<<[nil |-> FALSE, config |-> c, create |-> cr, use |-> u]>> :
            c \in {"", "mirrors: {}"},
            cr \in {<<>>, <<[name |-> "reg", host |-> "0.0.0.0", image |-> DefaultRegistryImage,
                            host_port |-> "5000"]>>},
            u \in {<<>>, <<"k3d-reg:5000">>}}

\* Cluster configurations: the defaults with one attribute or block list set.
\* A block of env, label, volume or extra_args whose attributes all have the
\* zero value is a nil element of the list.
ClusterInputs ==
    LET base == [DefaultArgs EXCEPT !.name = "bar"] IN
    {base}
    \cup {[base EXCEPT !.servers = 3, !.agents = 2, !.image = "rancher/k3s:latest",
                       !.network = "net", !.token = "secret"]}
    \cup {[base EXCEPT !.env = l] : l \in ListsOf(KeyValueBlocks \cup {NilBlock})}
    \cup {[base EXCEPT !.label = l] : l \in ListsOf(KeyValueBlocks \cup {NilBlock})}
    \cup {[base EXCEPT !.volume = l] : l \in ListsOf(VolumeBlocks \cup {NilBlock})}
    \cup {[base EXCEPT !.port = l] : l \in ListsOf(PortBlocks)}
    \cup {[base EXCEPT !.kube_api = l] : l \in KubeApiLists}
    \cup {[base EXCEPT !.k3d = l] : l \in K3dLists}
    \cup {[base EXCEPT !.k3s = l] : l \in K3sLists}
    \cup {[base EXCEPT !.runtime = l] : l \in RuntimeLists}
    \cup {[base EXCEPT !.registries = l] : l \in RegistriesLists}
    \cup {[base EXCEPT !.kubeconfig = l] : l \in KubeconfigLists}

\* Registry configurations: the port list (MaxItems 1) and the volume blocks.
RegistryInputs ==
    LET base == [DefaultArgs EXCEPT !.name = "bar", !.image = DefaultRegistryImage] IN
    {[base EXCEPT !.port = e, !.volume = v] :
        e \in {<<>>, <<NilBlock>>}
              \cup {<<[nil |-> FALSE, host |-> "", host_ip |-> ip, host_port |-> hp]>> :
                      ip \in {"", "127.0.0.1"}, hp \in {0, 5000}},
        v \in ListsOf({NilBlock}
                      \cup {[nil |-> FALSE, source |-> s, destination |-> "/var/lib/registry"] :
                              s \in {"", "/srv"}})}

\* The host has called Create with a configuration; nothing is expanded yet.
InitExpand ==
    /\ \E kind \in {"resourceClusterCreate", "resourceRegistryCreate"} :
        /\ op = [p \in Procs |-> IF p = "p1" THEN kind ELSE "none"]
        /\ \E a \in (IF kind = "resourceClusterCreate" THEN ClusterInputs ELSE RegistryInputs) :
             args = [p \in Procs |-> IF p = "p1" THEN a ELSE DefaultArgs]
    /\ pc = [p \in Procs |-> IF p = "p1" THEN "expand" ELSE "idle"]
    /\ d = [p \in Procs |-> NewResourceData]
    /\ res = [p \in Procs |-> NoResult]
    /\ calls = [p \in Procs |-> <<>>]
    /\ logged = [p \in Procs |-> {}]
    /\ simpleConfig = [p \in Procs |-> NoSimpleConfig]
    /\ clusterConfig = [p \in Procs |-> NoClusterConfig]
    /\ existingKubeConfig = [p \in Procs |-> NoKubeconfig]
    /\ registry = [p \in Procs |-> NoRegistry]
    /\ freePort = [p \in Procs |-> NoFreePort]
    /\ clusters = [n \in Names |-> Absent]
    /\ nodes = [c \in ContainerNames |-> AbsentNode]
    /\ kube = InitialKubeconfig
    /\ ops = 1

\* Lines 443-494 of resourceClusterCreate on the configuration the host handed over.
resourceClusterCreateExpand(p) ==
    /\ pc[p] = "expand"
    /\ op[p] = "resourceClusterCreate"
    /\ IF TypeAssertionPanics(args[p].env)
       THEN /\ Return(p, ConversionPanic)
            /\ UNCHANGED <<freePort, simpleConfig>>
       ELSE \E fp \in GetFreePort :
            /\ freePort' = [freePort EXCEPT ![p] =
                                [port |-> fp.port, ok |-> fp.ok, called |-> TRUE]]
            /\ IF \/ TypeAssertionPanics(args[p].volume)
                  \/ TypeAssertionPanics(args[p].label)
                  \/ expandConfigOptionsK3sPanics(args[p].k3s)
               THEN /\ Return(p, ConversionPanic)
                    /\ UNCHANGED simpleConfig
               ELSE /\ simpleConfig' = [simpleConfig EXCEPT ![p] =
                                           NewSimpleConfig(args[p], fp.port)]
                    /\ pc' = [pc EXCEPT ![p] = "transform"]
                    /\ UNCHANGED res
    /\ UNCHANGED <<op, args, d, calls, logged, clusterConfig, existingKubeConfig,
                   registry, clusters, nodes, kube, ops>>

\* Lines 271-287 of resourceRegistryCreate on the configuration the host handed over.
resourceRegistryCreateExpand(p) ==
    /\ pc[p] = "expand"
    /\ op[p] = "resourceRegistryCreate"
    /\ \E fp \in GetFreePort :
        /\ freePort' = [freePort EXCEPT ![p] = [port |-> fp.port, ok |-> fp.ok, called |-> TRUE]]
        /\ IF TypeAssertionPanics(args[p].volume)
           THEN /\ Return(p, ConversionPanic)
                /\ UNCHANGED registry
           ELSE /\ registry' = [registry EXCEPT ![p] = NewRegistry(args[p], fp.port)]
                /\ pc' = [pc EXCEPT ![p] = "registry_run"]
                /\ UNCHANGED res
    /\ UNCHANGED <<op, args, d, calls, logged, simpleConfig, clusterConfig,
                   existingKubeConfig, clusters, nodes, kube, ops>>

NextExpand == resourceClusterCreateExpand("p1") \/ resourceRegistryCreateExpand("p1")

SpecExpand == InitExpand /\ [][NextExpand]_vars

----------------------------------------------------------------------------
(* What the claims speak of *)

IsClusterCreate(p) == op[p] = "resourceClusterCreate"

Done(p) == pc[p] = "done"

\* The invocation made a call of fn that failed, or one that succeeded.
Failed(p, fn) == \E i \in CallsOf(p, fn) : ~calls[p][i].ok
Succeeded(p, fn) == \E i \in CallsOf(p, fn) : calls[p][i].ok

\* A stage of the pipeline failed.
StageFailed(p) ==
    \/ Failed(p, "TransformSimpleToClusterConfig")
    \/ Failed(p, "ProcessClusterConfig")
    \/ Failed(p, "ValidateClusterConfig")

\* The calls of Create that change the runtime or the default kubeconfig.
MutatingCalls(p) ==
    CallsOf(p, "ClusterRun") \cup CallsOf(p, "ClusterDelete") \cup CallsOf(p, "KubeconfigGetWrite")

AlreadyExists ==
    Errorf("Failed to create cluster because a cluster with that name already exists")

RollbackFailed == Errorf("Cluster creation FAILED, also FAILED to rollback changes!")

\* The existence check of Create found the cluster: a ClusterGet before any ClusterRun.
ExistenceCheckFound(p) ==
    \E i \in CallsOf(p, "ClusterGet") :
        /\ calls[p][i].ok
        /\ \A j \in CallsOf(p, "ClusterRun") : i < j

----------------------------------------------------------------------------
(* C1: in cluster Create every ClusterDelete directly follows a failed ClusterRun
   and names the same cluster, there is at most one, and a Create that has
   returned after a failed ClusterRun has made that ClusterDelete. *)
C1_RollbackExactlyOnRunFailure ==
    \A p \in Procs : IsClusterCreate(p) =>
        /\ \A i \in CallsOf(p, "ClusterDelete") :
            /\ i > 1
            /\ calls[p][i - 1].fn = "ClusterRun"
            /\ ~calls[p][i - 1].ok
            /\ calls[p][i].target = args[p].name
            /\ calls[p][i - 1].target = args[p].name
        /\ Cardinality(CallsOf(p, "ClusterDelete")) <= 1
        /\ Done(p) =>
            \A i \in CallsOf(p, "ClusterRun") :
                ~calls[p][i].ok =>
                    /\ i < Len(calls[p])
                    /\ calls[p][i + 1].fn = "ClusterDelete"
                    /\ calls[p][i + 1].target = args[p].name

C1_Witness ==
    /\ IsClusterCreate("p1") /\ Done("p1")
    /\ Failed("p1", "ClusterRun")
    /\ CallsOf("p1", "ClusterDelete") # {}

(* C2: a cluster Create that has returned after a failed ClusterRun returned an
   error: the creation error when the rollback succeeded, and then the runtime
   holds no cluster of that name; the rollback-failed error when it did not. *)
C2_RollbackInvariant ==
    \A p \in Procs : (IsClusterCreate(p) /\ Done(p) /\ Failed(p, "ClusterRun")) =>
        /\ res[p].status = "error"
        /\ \/ /\ Succeeded(p, "ClusterDelete")
              /\ res[p] = FromErr(ErrOf("ClusterRun"))
              /\ clusters[args[p].name].st = "absent"
           \/ /\ Failed(p, "ClusterDelete")
              /\ res[p] = RollbackFailed
        /\ res[p] # RollbackFailed => clusters[args[p].name].st = "absent"

C2_Witness ==
    /\ IsClusterCreate("p1") /\ Done("p1")
    /\ Failed("p1", "ClusterRun") /\ Failed("p1", "ClusterDelete")
    /\ clusters[args["p1"].name] = [st |-> "partial", by |-> "p1"]
    /\ res["p1"] = RollbackFailed

(* C3: a cluster Create in which transform, process or validate failed has
   returned that stage's error, made no ClusterRun, ClusterDelete or
   KubeconfigGetWrite call, left the ID unset and touched no cluster. *)
C3_StageFailureHasNoSideEffect ==
    \A p \in Procs : (IsClusterCreate(p) /\ StageFailed(p)) =>
        /\ Done(p)
        /\ ~calls[p][Len(calls[p])].ok
        /\ res[p] = FromErr(ErrOf(calls[p][Len(calls[p])].fn))
        /\ MutatingCalls(p) = {}
        /\ d[p].id = ""
        /\ \A n \in Names : clusters[n].by # p

C3_Witness ==
    /\ IsClusterCreate("p1") /\ Done("p1")
    /\ Failed("p1", "ValidateClusterConfig")
    /\ res["p1"] = FromErr(ErrOf("ValidateClusterConfig"))

(* C4: in cluster Create a ClusterGet for the same cluster directly precedes
   every ClusterRun, and a Create whose existence check found the cluster has
   returned the already-exists error without a ClusterRun, ClusterDelete or
   KubeconfigGetWrite call, with the ID unset and the cluster as it was. *)
C4_ExistenceCheckBeforeRun ==
    \A p \in Procs : IsClusterCreate(p) =>
        /\ \A i \in CallsOf(p, "ClusterRun") :
            /\ i > 1
            /\ calls[p][i - 1].fn = "ClusterGet"
            /\ calls[p][i - 1].target = calls[p][i].target
            /\ ~calls[p][i - 1].ok
        /\ ExistenceCheckFound(p) =>
            /\ Done(p)
            /\ res[p] = AlreadyExists
            /\ MutatingCalls(p) = {}
            /\ d[p].id = ""
            /\ clusters[args[p].name].st # "absent"
            /\ clusters[args[p].name].by # p

C4_Witness ==
    /\ IsClusterCreate("p1") /\ Done("p1")
    /\ res["p1"] = AlreadyExists
    /\ clusters[args["p1"].name].st = "ready"

(* C5: a node Create whose NodeAddToCluster failed, and a registry Create whose
   RegistryRun failed, has deleted the container of that ID before it returned,
   so that nothing it made remains. *)
C5_NodeAndRegistryCreateRollBack ==
    \A p \in Procs :
        (/\ Done(p)
         /\ \/ op[p] = "resourceNodeCreate" /\ Failed(p, "NodeAddToCluster")
            \/ op[p] = "resourceRegistryCreate" /\ Failed(p, "RegistryRun")) =>
            /\ \E i \in CallsOf(p, "NodeDelete") : calls[p][i].target = ObjectID(args[p].name)
            /\ nodes[ObjectID(args[p].name)].by # p

\* Create read the cluster back after ClusterRun, and the lookup failed.
ReadBackFailed(p) ==
    \E i \in CallsOf(p, "ClusterGet"), j \in CallsOf(p, "ClusterRun") :
        j < i /\ ~calls[p][i].ok

(* C6: a cluster Create that has returned after a successful ClusterRun and a
   failed KubeconfigGetWrite or KubeconfigGet has logged that failure, set the
   ID and left the cluster in place without a ClusterDelete; what it returns is
   what the read-back alone decides, and never the kubeconfig error: nil after a
   failed KubeconfigGet, and the ClusterGet error exactly when ClusterGet failed. *)
C6_KubeconfigFailureIsNotFatal ==
    \A p \in Procs :
        (/\ IsClusterCreate(p) /\ Done(p) /\ Succeeded(p, "ClusterRun")
         /\ Failed(p, "KubeconfigGetWrite") \/ Failed(p, "KubeconfigGet")) =>
            /\ d[p].id = args[p].name
            /\ CallsOf(p, "ClusterDelete") = {}
            /\ clusters[args[p].name] = [st |-> "ready", by |-> p]
            /\ Failed(p, "KubeconfigGetWrite") => ErrOf("KubeconfigGetWrite") \in logged[p]
            /\ Failed(p, "KubeconfigGet") =>
                  ErrOf("KubeconfigGet") \in logged[p] /\ res[p] = Ok
            /\ res[p].cause \notin {ErrOf("KubeconfigGetWrite"), ErrOf("KubeconfigGet")}
            /\ IF ReadBackFailed(p)
               THEN res[p] = FromErr(ErrOf("ClusterGet"))
               ELSE res[p] \in {Ok, Panic} /\ (res[p] = Panic => Succeeded(p, "KubeconfigGet"))

C6_Witness ==
    /\ IsClusterCreate("p1") /\ Done("p1")
    /\ Failed("p1", "KubeconfigGetWrite") /\ Failed("p1", "KubeconfigGet")
    /\ res["p1"] = Ok
    /\ d["p1"].id = args["p1"].name

(* C7: when two cluster Creates with different names, both with
   update_default_kubeconfig on, have both returned after a successful
   KubeconfigGetWrite, the default kubeconfig holds the contexts of both
   clusters and the foreign context as it was. *)
C7_ConcurrentCreatesKeepAllContexts ==
    (/\ IsClusterCreate("p1") /\ Done("p1") /\ Succeeded("p1", "KubeconfigGetWrite")
     /\ IsClusterCreate("p2") /\ Done("p2") /\ Succeeded("p2", "KubeconfigGetWrite")
     /\ args["p1"].name # args["p2"].name) =>
        /\ kube.contexts[ObjectID(args["p1"].name)] = "creds:" \o args["p1"].name
        /\ kube.contexts[ObjectID(args["p2"].name)] = "creds:" \o args["p2"].name
        /\ kube.contexts[ForeignContext] = "foreign"

\* The step is a successful KubeconfigGetWrite of invocation p.
KubeconfigWritten(p) ==
    /\ Len(calls'[p]) = Len(calls[p]) + 1
    /\ calls'[p][Len(calls'[p])].fn = "KubeconfigGetWrite"
    /\ calls'[p][Len(calls'[p])].ok

\* Every KubeconfigGetWrite call directly follows a successful ClusterRun of a
\* Create configured with update_default_kubeconfig, and asks to update, never
\* to overwrite, and to switch the context as switch_current_context says.
KubeconfigCallsAsConfigured ==
    \A p \in Procs : \A i \in CallsOf(p, "KubeconfigGetWrite") :
        /\ IsClusterCreate(p)
        /\ i > 1
        /\ calls[p][i - 1].fn = "ClusterRun"
        /\ calls[p][i - 1].ok
        /\ Len(args[p].kubeconfig) = 1
        /\ ~args[p].kubeconfig[1].nil
        /\ args[p].kubeconfig[1].update_default_kubeconfig
        /\ calls[p][i].opts.UpdateExisting
        /\ ~calls[p][i].opts.OverwriteExisting
        /\ calls[p][i].opts.UpdateCurrentContext = args[p].kubeconfig[1].switch_current_context

(* C8: the default kubeconfig changes only in a successful KubeconfigGetWrite,
   which only a Create with update_default_kubeconfig makes and only after its
   ClusterRun succeeded; the write updates the cluster's own context, keeps
   every other context, and makes the cluster's context the current one when
   switch_current_context is true and keeps the current one when it is false. *)
C8_KubeconfigWrittenOnlyAsConfigured ==
    [][/\ KubeconfigCallsAsConfigured'
       /\ kube' # kube => \E p \in Procs : KubeconfigWritten(p)
       /\ \A p \in Procs : KubeconfigWritten(p) =>
            /\ kube'.contexts = [kube.contexts EXCEPT ![ObjectID(args[p].name)] =
                                    "creds:" \o args[p].name]
            /\ kube'.current = IF args[p].kubeconfig[1].switch_current_context
                               THEN ObjectID(args[p].name) ELSE kube.current]_vars

C8_Witness ==
    /\ IsClusterCreate("p1") /\ Done("p1")
    /\ Succeeded("p1", "KubeconfigGetWrite")
    /\ ~args["p1"].kubeconfig[1].switch_current_context
    /\ kube.contexts[ObjectID(args["p1"].name)] = "creds:" \o args["p1"].name
    /\ kube.current = ForeignContext

CreateOps == {"resourceClusterCreate", "resourceNodeCreate", "resourceRegistryCreate"}

PrefixedName(name) == DefaultObjectNamePrefix \o "-" \o name

DataSourceReads == {"dataSourceClusterRead", "dataSourceNodeRead", "dataSourceRegistryRead"}

ResourceReads == {"resourceClusterRead", "resourceNodeRead", "resourceRegistryRead"}

C11_NodeAndRegistryNeverCollide ==
    [][\A p \in Procs :
        /\ op[p] = "resourceRegistryDelete" =>
              \A c \in ContainerNames : nodes[c].kind = "node" => nodes'[c] = nodes[c]
        /\ op[p] = "resourceNodeDelete" =>
              \A c \in ContainerNames : nodes[c].kind = "registry" => nodes'[c] = nodes[c]
        /\ (op'[p] \in {"resourceRegistryRead", "dataSourceRegistryRead"} /\ res'[p] = Ok) =>
              nodes'[ObjectID(args'[p].name)].kind = "registry"
        /\ (op'[p] \in {"resourceNodeRead", "dataSourceNodeRead"} /\ res'[p] = Ok) =>
              nodes'[ObjectID(args'[p].name)].kind = "node"]_vars

(* C12: a handler that has returned an error after one of its collaborator
   calls failed returned a diagnostic that carries the error of a failed call
   of its own. *)
C12_ErrorsCarryCollaboratorText ==
    \A p \in Procs :
        (/\ Done(p)
         /\ res[p].status = "error"
         /\ \E i \in 1..Len(calls[p]) : ~calls[p][i].ok) =>
            \E i \in 1..Len(calls[p]) :
                ~calls[p][i].ok /\ res[p].cause = ErrOf(calls[p][i].fn)

ResourceDeletes == {"resourceClusterDelete", "resourceNodeDelete", "resourceRegistryDelete"}

\* The resource data the host hands to a Read or a Delete: what Create stored.
StoredData(p) ==
    [NewResourceData EXCEPT !.id = IF op[p] \in {"resourceClusterRead", "resourceClusterDelete"}
                                   THEN args[p].name
                                   ELSE PrefixedName(args[p].name)]

(* C13 as claimed: every Read and every Delete of a resource makes exactly one
   runtime call; when it fails the handler returns its error and leaves the
   resource data as it was, and when it succeeds the handler returns nil. *)
C13_ReadAndDeleteAreOneCall ==
    \A p \in Procs :
        (Done(p) /\ op[p] \in ResourceReads \cup ResourceDeletes) =>
            /\ Len(calls[p]) = 1
            /\ IF calls[p][1].ok
               THEN res[p] = Ok
               ELSE /\ res[p].status = "error"
                    /\ res[p].msg = ErrOf(calls[p][1].fn)
                    /\ d[p] = StoredData(p)

(* C13 as amended: every Delete, and every Read of a node or a registry, makes
   exactly one runtime call, returns nil when it succeeds and its error
   unchanged when it fails, and leaves the resource data as it was. The Read
   of a cluster makes ClusterGet; when that fails it is the only call, its
   error is returned unchanged and the resource data is as it was; when it
   succeeds Read makes a second call, KubeconfigGet, whose failure is logged
   and not returned. *)
C13_ReadAndDeleteReturnFirstError ==
    \A p \in Procs :
        (Done(p) /\ op[p] \in ResourceReads \cup ResourceDeletes) =>
            /\ Len(calls[p]) = IF op[p] = "resourceClusterRead" /\ calls[p][1].ok THEN 2 ELSE 1
            /\ ~calls[p][1].ok =>
                  /\ res[p].status = "error"
                  /\ res[p].msg = ErrOf(calls[p][1].fn)
                  /\ d[p] = StoredData(p)
            /\ (calls[p][1].ok /\ op[p] # "resourceClusterRead") =>
                  res[p] = Ok /\ d[p] = StoredData(p)
            /\ (calls[p][1].ok /\ op[p] = "resourceClusterRead") =>
                  /\ calls[p][1].fn = "ClusterGet"
                  /\ calls[p][2].fn = "KubeconfigGet"
                  /\ d[p].id = args[p].name
                  /\ ~calls[p][2].ok =>
                        res[p] = Ok /\ ErrOf("KubeconfigGet") \in logged[p]

C13_Witness ==
    /\ op["p1"] = "resourceClusterRead" /\ Done("p1")
    /\ Len(calls["p1"]) = 2
    /\ Failed("p1", "KubeconfigGet")
    /\ res["p1"] = Ok

\* The role a user asks for with an accepted role value, whatever its case.
RoleAskedFor(role) == IF role \in {"server", "Server"} THEN "server" ELSE "agent"

(* C20: the node that node Create hands to NodeAddToCluster has a role that is
   server or agent and is the role the user asked for. *)
C20_SubmittedRoleIsTheRoleAsked ==
    \A p \in Procs : \A i \in CallsOf(p, "NodeAddToCluster") :
        /\ calls[p][i].arg \in {"server", "agent"}
        /\ calls[p][i].arg = RoleAskedFor(args[p].role)

\* No block of the list is a nil element.
NoNil(l) == \A i \in 1..Len(l) : ~l[i].nil

\* No env, label or volume block and no extra_args block is a nil element.
NoNilBlocks(a) ==
    /\ NoNil(a.env) /\ NoNil(a.label) /\ NoNil(a.volume)
    /\ (Len(a.k3s) # 0 /\ ~a.k3s[1].nil) => NoNil(a.k3s[1].extra_args)

\* Create has built simpleConfig, or the registry, from a configuration none
\* of whose blocks is a nil element.
ClusterExpanded(p) ==
    op[p] = "resourceClusterCreate" /\ freePort[p].called /\ NoNilBlocks(args[p])
RegistryExpanded(p) ==
    op[p] = "resourceRegistryCreate" /\ freePort[p].called /\ NoNilBlocks(args[p])

\* A block list is given with a block that is not nil.
Given(l) == Len(l) > 0 /\ ~l[1].nil

\* Every attribute but the label blocks is in simpleConfig.
AttributesKept(p) ==
    LET a == args[p]
        sc == simpleConfig[p]
    IN /\ sc.Name = a.name /\ sc.Servers = a.servers /\ sc.Agents = a.agents
       /\ sc.Image = a.image /\ sc.Network = a.network /\ sc.ClusterToken = a.token
       /\ Len(sc.Env) = Len(a.env)
       /\ \A i \in 1..Len(a.env) :
            /\ sc.Env[i].EnvVar = a.env[i].key \o "=" \o a.env[i].value
            /\ sc.Env[i].NodeFilters = a.env[i].node_filters
       /\ Len(sc.Volumes) = Len(a.volume)
       /\ \A i \in 1..Len(a.volume) : sc.Volumes[i].NodeFilters = a.volume[i].node_filters
       /\ Len(sc.Ports) = Len(a.port)
       /\ \A i \in 1..Len(a.port) : sc.Ports[i].NodeFilters = a.port[i].node_filters
       /\ Given(a.kube_api) =>
            /\ sc.ExposeAPI.Host = a.kube_api[1].host
            /\ sc.ExposeAPI.HostIP = a.kube_api[1].host_ip
            /\ a.kube_api[1].host_port # 0 =>
                  sc.ExposeAPI.HostPort = ToString(a.kube_api[1].host_port)
       /\ Given(a.k3d) =>
            /\ sc.Options.K3dOptions.DisableImageVolume = a.k3d[1].disable_image_volume
            /\ sc.Options.K3dOptions.DisableLoadbalancer = a.k3d[1].disable_load_balancer
       /\ Given(a.k3s) =>
            /\ Len(sc.Options.K3sOptions.ExtraArgs) = Len(a.k3s[1].extra_args)
            /\ \A i \in 1..Len(a.k3s[1].extra_args) :
                 /\ sc.Options.K3sOptions.ExtraArgs[i].Arg = a.k3s[1].extra_args[i].arg
                 /\ sc.Options.K3sOptions.ExtraArgs[i].NodeFilters =
                        a.k3s[1].extra_args[i].node_filters
       /\ Given(a.kubeconfig) =>
            /\ sc.Options.KubeconfigOptions.SwitchCurrentContext =
                   a.kubeconfig[1].switch_current_context
            /\ sc.Options.KubeconfigOptions.UpdateDefaultKubeconfig =
                   a.kubeconfig[1].update_default_kubeconfig
       /\ Given(a.runtime) =>
            /\ sc.Options.Runtime.AgentsMemory = a.runtime[1].agents_memory
            /\ sc.Options.Runtime.GPURequest = a.runtime[1].gpu_request
            /\ sc.Options.Runtime.ServersMemory = a.runtime[1].servers_memory
       /\ Given(a.registries) =>
            /\ sc.Registries.Config = a.registries[1].config
            /\ sc.Registries.Use = a.registries[1].use
            /\ Len(sc.Registries.Create) = Len(a.registries[1].create)
            /\ \A i \in 1..Len(a.registries[1].create) :
                 /\ sc.Registries.Create[i].Name = a.registries[1].create[i].name
                 /\ sc.Registries.Create[i].Host = a.registries[1].create[i].host
                 /\ sc.Registries.Create[i].Image = a.registries[1].create[i].image
                 /\ sc.Registries.Create[i].HostPort = a.registries[1].create[i].host_port

\* Every label block is in simpleConfig.
LabelsKept(p) ==
    LET a == args[p]
        labels == simpleConfig[p].Options.Runtime.Labels
    IN /\ Len(labels) = Len(a.label)
       /\ \A i \in 1..Len(a.label) :
            /\ labels[i].Label = a.label[i].key \o "=" \o a.label[i].value
            /\ labels[i].NodeFilters = a.label[i].node_filters

(* C14: every attribute the user sets is in the simpleConfig that Create hands
   to the transform stage, every label block among them. *)
C14_EveryAttributeReachesTheConfig ==
    \A p \in Procs : ClusterExpanded(p) => AttributesKept(p) /\ LabelsKept(p)

\* The node filters of the expanded entries whose block gave no node_filters.
DefaultedNodeFilters(p) ==
    LET a == args[p]
        sc == simpleConfig[p]
    IN {sc.Env[i].NodeFilters : i \in {j \in 1..Len(sc.Env) : a.env[j].node_filters = <<>>}}
       \cup {sc.Volumes[i].NodeFilters :
                i \in {j \in 1..Len(sc.Volumes) : a.volume[j].node_filters = <<>>}}
       \cup {sc.Ports[i].NodeFilters :
                i \in {j \in 1..Len(sc.Ports) : a.port[j].node_filters = <<>>}}
       \cup {sc.Options.K3sOptions.ExtraArgs[i].NodeFilters :
                i \in {j \in 1..Len(sc.Options.K3sOptions.ExtraArgs) :
                          a.k3s[1].extra_args[j].node_filters = <<>>}}

(* C15: an env, volume, port or extra-arg block without node_filters is
   expanded with a node filter of its own, the one that names the nodes of the
   server role, and not with none. *)
C15_MissingNodeFiltersDefaultToServers ==
    \A p \in Procs : ClusterExpanded(p) =>
        \A filters \in DefaultedNodeFilters(p) : filters # <<>>

\* The volume string the claim gives for a block.
SourceColonDestination(v) ==
    IF v.source = "" THEN v.destination ELSE v.source \o ":" \o v.destination

(* C16: the i-th volume block of a cluster and of a registry gives the i-th
   volume string, "source:destination" where source is not empty and
   "destination" where it is, in every list none of whose blocks is a nil
   element. *)
C16_VolumeStrings ==
    \A p \in Procs :
        /\ ClusterExpanded(p) =>
            /\ Len(simpleConfig[p].Volumes) = Len(args[p].volume)
            /\ \A i \in 1..Len(args[p].volume) :
                 simpleConfig[p].Volumes[i].Volume = SourceColonDestination(args[p].volume[i])
        /\ RegistryExpanded(p) =>
            /\ Len(registry[p].Volumes) = Len(args[p].volume)
            /\ \A i \in 1..Len(args[p].volume) :
                 registry[p].Volumes[i] = SourceColonDestination(args[p].volume[i])

C16_Witness ==
    /\ ClusterExpanded("p1")
    /\ Len(args["p1"].volume) = 2
    /\ args["p1"].volume[1].source = ""
    /\ args["p1"].volume[2].source = "/srv"
    /\ simpleConfig["p1"].Volumes[1].Volume = "/data"
    /\ simpleConfig["p1"].Volumes[2].Volume = "/srv:/data"

\* host:hostPort:containerPort/protocol
PortSpec(host, hostPort, containerPort, protocol) ==
    host \o ":" \o ToString(hostPort) \o ":" \o ToString(containerPort) \o "/" \o protocol

(* C17: the i-th port block gives the port string
   host:hostPort:containerPort/protocol, with protocol TCP where the block
   gives none. *)
C17_PortStringsDefaultToTCP ==
    \A p \in Procs : ClusterExpanded(p) =>
        /\ Len(simpleConfig[p].Ports) = Len(args[p].port)
        /\ \A i \in 1..Len(args[p].port) :
             LET v == args[p].port[i] IN
             simpleConfig[p].Ports[i].Port =
                 PortSpec(v.host, v.host_port, v.container_port,
                          IF v.protocol = "" THEN "TCP" ELSE v.protocol)

(* C18: a port block without host_port is expanded with an allocated host
   port, not with port 0, and two such blocks that are otherwise alike with
   different ones. *)
C18_UnsetHostPortIsAllocated ==
    \A p \in Procs : ClusterExpanded(p) =>
        \A i \in 1..Len(args[p].port) :
            LET v == args[p].port[i] IN
            v.host_port = 0 =>
                /\ simpleConfig[p].Ports[i].Port #
                       PortSpec(v.host, 0, v.container_port, v.protocol)
                /\ \A j \in 1..Len(args[p].port) :
                     (j # i /\ args[p].port[j] = v) =>
                         simpleConfig[p].Ports[j].Port # simpleConfig[p].Ports[i].Port

\* The host port an exposure list asks for: the given one, or the free port.
RequestedHostPort(l, p) ==
    IF Given(l) /\ l[1].host_port # 0 THEN l[1].host_port ELSE freePort[p].port

(* C19: the host port of the cluster's kube_api exposure and of the registry's
   port exposure is the given host_port where one is given and the port
   GetFreePort returned where none is, and is a port number in 1..65535. *)
C19_ExposedHostPortIsValid ==
    \A p \in Procs :
        /\ ClusterExpanded(p) =>
            /\ simpleConfig[p].ExposeAPI.HostPort =
                   ToString(RequestedHostPort(args[p].kube_api, p))
            /\ RequestedHostPort(args[p].kube_api, p) \in 1..65535
            /\ simpleConfig[p].ExposeAPI.HostPort # "0"
        /\ RegistryExpanded(p) =>
            /\ registry[p].ExposureOpts.HostPort = ToString(RequestedHostPort(args[p].port, p))
            /\ RequestedHostPort(args[p].port, p) \in 1..65535
            /\ registry[p].ExposureOpts.HostPort # "0"

\* The calls of a cluster Create up to ClusterRun, in the order of the code.
PipelineCalls ==
    <<"TransformSimpleToClusterConfig", "ProcessClusterConfig", "ValidateClusterConfig",
      "ClusterGet", "ClusterRun">>

\* How a cluster Create that has returned ended.
EndedBeforeSubmission(p) == CallsOf(p, "ClusterRun") = {}
EndedCreated(p) == Succeeded(p, "ClusterRun")
EndedRolledBack(p) == Failed(p, "ClusterRun") /\ Succeeded(p, "ClusterDelete")
EndedRollbackFailed(p) == Failed(p, "ClusterRun") /\ Failed(p, "ClusterDelete")

(* C23: the calls of a cluster Create are, in this order and each at most once,
   transform, process, validate, the existence check and ClusterRun, each made
   only after the stages before it succeeded; what follows ClusterRun is the
   rollback after a failure and the kubeconfig and the read-back after a
   success; and a Create that has returned ended in exactly one of: before
   submission, created, rolled back, rollback failed. *)
C23_StagesInOrder ==
    \A p \in Procs : IsClusterCreate(p) =>
        /\ \A i \in 1..Len(calls[p]) :
            /\ i <= 5 => calls[p][i].fn = PipelineCalls[i]
            /\ (i <= 5 /\ i > 1) => (IF i = 5 THEN ~calls[p][i - 1].ok ELSE calls[p][i - 1].ok)
            /\ i > 5 =>
                 IF calls[p][5].ok
                 THEN calls[p][i].fn \in {"KubeconfigGetWrite", "ClusterGet", "KubeconfigGet"}
                 ELSE calls[p][i].fn = "ClusterDelete" /\ i = 6
        /\ \A fn \in {PipelineCalls[i] : i \in {1, 2, 3, 5}} : Cardinality(CallsOf(p, fn)) <= 1
        /\ Done(p) =>
            Cardinality({e \in {"before", "created", "rolledback", "rollbackfailed"} :
                            \/ e = "before" /\ EndedBeforeSubmission(p)
                            \/ e = "created" /\ EndedCreated(p)
                            \/ e = "rolledback" /\ EndedRolledBack(p)
                            \/ e = "rollbackfailed" /\ EndedRollbackFailed(p)}) = 1

C23_Witness ==
    /\ IsClusterCreate("p1") /\ Done("p1")
    /\ Len(calls["p1"]) = 6
    /\ EndedRolledBack("p1")

(* C25: when two cluster Creates of the same name have both returned, one that
   returned success has its cluster in the runtime. *)
C25_SuccessfulCreateKeepsItsCluster ==
    (/\ IsClusterCreate("p1") /\ Done("p1")
     /\ IsClusterCreate("p2") /\ Done("p2")
     /\ args["p1"].name = args["p2"].name) =>
        \A p \in Procs : res[p] = Ok => clusters[args[p].name] = [st |-> "ready", by |-> p]

(* C26 as claimed: a cluster Create that has returned an error other than
   already-exists and rollback-failed has left no cluster of its own in the
   runtime. *)
C26_FailedCreateLeavesNoCluster ==
    \A p \in Procs :
        (/\ IsClusterCreate(p) /\ Done(p)
         /\ res[p].status = "error"
         /\ res[p] \notin {AlreadyExists, RollbackFailed}) =>
            \A n \in Names : clusters[n].by # p

(* C26 as amended: a cluster Create that has returned an error other than
   already-exists and rollback-failed without a successful ClusterRun has left
   no cluster of its own in the runtime and no ID; one that has returned an
   error after a successful ClusterRun returned the error of the read-back's
   ClusterGet, made no ClusterDelete, and left the ID set to the name. *)
C26_FailedCreateLeavesNoClusterUnlessRun ==
    \A p \in Procs :
        (/\ IsClusterCreate(p) /\ Done(p)
         /\ res[p].status = "error"
         /\ res[p] \notin {AlreadyExists, RollbackFailed}) =>
            IF Succeeded(p, "ClusterRun")
            THEN /\ res[p] = FromErr(ErrOf("ClusterGet"))
                 /\ CallsOf(p, "ClusterDelete") = {}
                 /\ d[p].id = args[p].name
                 /\ clusters[args[p].name].by = p
            ELSE /\ \A n \in Names : clusters[n].by # p
                 /\ d[p].id = ""

C26_Witness ==
    /\ IsClusterCreate("p1") /\ Done("p1")
    /\ Succeeded("p1", "ClusterRun")
    /\ res["p1"] = FromErr(ErrOf("ClusterGet"))
    /\ clusters[args["p1"].name] = [st |-> "ready", by |-> "p1"]
    /\ d["p1"].id = args["p1"].name

\* The runtime create call of each Create.
CreateCall(kind) ==
    CASE kind = "resourceClusterCreate" -> "ClusterRun"
      [] kind = "resourceNodeCreate" -> "NodeAddToCluster"
      [] kind = "resourceRegistryCreate" -> "RegistryRun"

(* C27: in Create of a cluster, a node and a registry the ID is set only after
   the runtime create call of this invocation succeeded; a Create that returns
   without that success returns with the ID unset. *)
C27_IDSetOnlyAfterCreateCall ==
    \A p \in Procs : op[p] \in CreateOps =>
        /\ d[p].id # "" => Succeeded(p, CreateCall(op[p]))
        /\ (Done(p) /\ ~Succeeded(p, CreateCall(op[p]))) => d[p].id = ""

C27_Witness ==
    /\ op["p1"] = "resourceNodeCreate" /\ Done("p1")
    /\ Failed("p1", "NodeAddToCluster")
    /\ d["p1"].id = ""
    /\ nodes[ObjectID(args["p1"].name)].st = "partial"

(* C28: in cluster Create every ClusterRun directly follows an existence check
   that answered not found; a ClusterGet that failed otherwise ends Create with
   an error and without a ClusterRun or a ClusterDelete. *)
C28_RunOnlyAfterNotFound ==
    \A p \in Procs : IsClusterCreate(p) =>
        /\ \A i \in CallsOf(p, "ClusterRun") :
            i > 1 /\ calls[p][i - 1].fn = "ClusterGet" /\ calls[p][i - 1].arg = "notfound"
        /\ \A i \in CallsOf(p, "ClusterGet") :
            (calls[p][i].arg = "error" /\ \A j \in CallsOf(p, "ClusterRun") : i < j) =>
                /\ CallsOf(p, "ClusterRun") = {}
                /\ CallsOf(p, "ClusterDelete") = {}

(* C29: a cluster Read, by itself or at the end of Create, whose KubeconfigGet
   succeeded has not crashed. *)
C29_ReadNeverCrashes ==
    \A p \in Procs :
        (op[p] \in {"resourceClusterRead", "resourceClusterCreate"} /\ Succeeded(p, "KubeconfigGet")) =>
            res[p] # Panic

\* A configuration that gives a name and nothing else.
OnlyAName(p) == args[p] = [DefaultArgs EXCEPT !.name = args[p].name]

\* The ClusterGet of the Read in an invocation succeeded: in a Create it is the
\* one after ClusterRun.
ReadFoundCluster(p) ==
    \E i \in CallsOf(p, "ClusterGet") :
        /\ calls[p][i].ok
        /\ op[p] = "resourceClusterCreate" => \E j \in CallsOf(p, "ClusterRun") : j < i

(* C21: for a cluster configured with only a name, a Create whose stages, whose
   ClusterRun and whose read-back ClusterGet succeeded returns success, and in
   it, as in a resource Read and a data-source Read whose ClusterGet succeeded,
   the network and the token attribute hold the values the runtime reports for
   the cluster of that name, neither of them empty. *)
C21_ReadSetsNetworkAndToken ==
    \A p \in Procs :
        (/\ op[p] \in {"resourceClusterCreate", "resourceClusterRead", "dataSourceClusterRead"}
         /\ OnlyAName(p)
         /\ ReadFoundCluster(p)) =>
            /\ d[p].network = NetworkOf(args[p].name) /\ d[p].network # ""
            /\ d[p].token = TokenOf(args[p].name) /\ d[p].token # ""
            /\ (Done(p) /\ res[p] # Panic) => res[p] = Ok

C21_Witness ==
    /\ IsClusterCreate("p1") /\ Done("p1") /\ res["p1"] = Ok
    /\ args["p1"] = [DefaultArgs EXCEPT !.name = "bar"]
    /\ d["p1"].id = "bar"
    /\ d["p1"].network = NetworkOf("bar")
    /\ d["p1"].token = TokenOf("bar")
    /\ clusters["bar"] = [st |-> "ready", by |-> "p1"]

\* The name under which the runtime holds what a handler creates or looks up.
RuntimeKey(kind, name) ==
    IF kind \in {"resourceClusterCreate", "dataSourceClusterRead"} THEN name ELSE ObjectID(name)

\* What the runtime holds under the key of a handler's kind and name.
RuntimeObject(kind, name) ==
    IF kind \in {"resourceClusterCreate", "dataSourceClusterRead"}
    THEN clusters[name] ELSE nodes[ObjectID(name)]

\* The lookup of each data-source Read.
LookupCall(kind) == IF kind = "dataSourceClusterRead" THEN "ClusterGet" ELSE "NodeGet"

\* The name attribute is the same before and after a step of a handler.
NameKept ==
    \A p \in Procs : (pc[p] # "idle" /\ pc'[p] # "idle") => args'[p].name = args[p].name

\* Create and the data-source Read use the same key, and Read finds what is there.
SameRuntimeObject ==
    \A p \in Procs :
        /\ op[p] \in CreateOps =>
            /\ \A i \in CallsOf(p, CreateCall(op[p])) :
                   calls[p][i].target = RuntimeKey(op[p], args[p].name)
            /\ Succeeded(p, CreateCall(op[p])) =>
                   /\ RuntimeObject(op[p], args[p].name).st = "ready"
                   /\ RuntimeObject(op[p], args[p].name).by = p
        /\ op[p] \in DataSourceReads =>
            \A i \in CallsOf(p, LookupCall(op[p])) :
                /\ calls[p][i].target = RuntimeKey(op[p], args[p].name)
                /\ RuntimeObject(op[p], args[p].name).st = "ready" => calls[p][i].arg # "notfound"
                /\ RuntimeObject(op[p], args[p].name).st = "absent" => calls[p][i].arg # "found"
                /\ (calls[p][i].arg = "found" /\ Done(p)) => res[p] = Ok

(* C22: Create and the data-source Read of a cluster, a node and a registry
   address the runtime object of the same key, the name for a cluster and the
   prefixed name for a node and a registry: a successful create call leaves the
   object ready under that key; a data-source Read looks that key up, does not
   answer not found while the object is ready, and returns success when the
   lookup found it; and no step of a handler changes the name attribute. *)
C22_CreateAndReadSameObject == []SameRuntimeObject /\ [][NameKept]_vars

C22_Witness ==
    /\ op["p1"] = "dataSourceRegistryRead" /\ Done("p1") /\ res["p1"] = Ok
    /\ args["p1"].name = "bar"
    /\ nodes[ObjectID("bar")].st = "ready"
    /\ nodes[ObjectID("bar")].by = "earlier"
    /\ d["p1"].id = ObjectID("bar")

\* The expansion of the configuration has run in a Create.
ExpansionRan(p) ==
    /\ op[p] \in {"resourceClusterCreate", "resourceRegistryCreate"}
    /\ pc[p] \notin {"idle", "expand", "build"}

(* C24: the expansion of a configuration the schema admits, blocks that are nil
   elements at any position among them, returns: Create does not crash in it. *)
C24_ExpandNeverFails ==
    \A p \in Procs : ExpansionRan(p) => res[p].status # "panic"

\* The entries of an expansion are as many as the blocks of a list that has a
\* block which is not a nil element.
OneEntryForEachBlock(out, l) ==
    (\E i \in 1..Len(l) : ~l[i].nil) => Len(out) = Len(l)

(* C30: the expansion of the env, label and volume blocks of a cluster and of
   the volume blocks of a registry, where it returns, gives one entry for each
   block, the i-th from the i-th block, also when the first block is a nil
   element and a later one is not. *)
C30_ExpansionKeepsEveryBlock ==
    \A p \in Procs : (ExpansionRan(p) /\ res[p].status # "panic") =>
        LET a == args[p] IN
        IF op[p] = "resourceClusterCreate"
        THEN /\ OneEntryForEachBlock(simpleConfig[p].Env, a.env)
             /\ \A i \in 1..Len(a.env) : ~a.env[i].nil =>
                    simpleConfig[p].Env[i].EnvVar = a.env[i].key \o "=" \o a.env[i].value
             /\ OneEntryForEachBlock(simpleConfig[p].Volumes, a.volume)
             /\ \A i \in 1..Len(a.volume) : ~a.volume[i].nil =>
                    simpleConfig[p].Volumes[i].Volume = VolumeString(a.volume[i])
             /\ OneEntryForEachBlock(expandLabels(a.label), a.label)
        ELSE /\ OneEntryForEachBlock(registry[p].Volumes, a.volume)
             /\ \A i \in 1..Len(a.volume) : ~a.volume[i].nil =>
                    registry[p].Volumes[i] = VolumeString(a.volume[i])

====
